---- MODULE Spec2Model ----
(***************************************************************************)
(* Plane-sweep closest pair of src/closest-pair.rs.                        *)
(*                                                                         *)
(* A Point is Complex<f32>: re is the x coordinate, im the y coordinate.   *)
(* Coordinates are drawn from integers that f32 represents exactly, in two *)
(* bands: a low band, where every f32 operation of the program is exact,   *)
(* and a high band, the line im = 2^(MantBits+1), where the f32 values     *)
(* below are 2 apart and `point.im - closest_distance` is rounded.         *)
(*                                                                         *)
(* closest_distance is the f32 nearest to the square root of               *)
(* closest_distance_sqr; the square root of a non-square is not an         *)
(* integer, so the model keeps it as [sqrt_of |-> n] and decides every     *)
(* comparison the program makes with it on squares.  For the distances of  *)
(* the model (far below 2^12) the f32 root of n lies above every rational  *)
(* h/2 with h*h < 4n and below every one with h*h > 4n, and equals it when *)
(* h*h = 4n, so the comparisons are those of the f32 values.               *)
(***************************************************************************)
EXTENDS Integers, Sequences, FiniteSets

\* Bounds of the inputs.
MaxLen == 4
MaxRe == 2
MaxIm == 1

\* f32: 24 significant bits.
MantBits == 24

RECURSIVE Pow2(_)
Pow2(n) == IF n = 0 THEN 1 ELSE 2 * Pow2(n - 1)

RECURSIVE Log2(_)
Log2(v) == IF v < 2 THEN 0 ELSE 1 + Log2(v \div 2)

Abs(v) == IF v < 0 THEN -v ELSE v

\* Spacing of the f32 values in the binade of the integer v >= 0 (1 where the
\* spacing is at most 1: every integer there is an f32).
Ulp(v) == IF v < Pow2(MantBits) THEN 1 ELSE Pow2(Log2(v) - MantBits + 1)

\* The f32 nearest to the integer v, ties to the even significand.
Fl(v) ==
  LET a == Abs(v)
      u == Ulp(a)
      m == a \div u
      r == a - m * u
      up == IF 2 * r > u THEN TRUE ELSE IF 2 * r < u THEN FALSE ELSE m % 2 = 1
      mag == IF up THEN (m + 1) * u ELSE m * u
  IN IF v < 0 THEN -mag ELSE mag

\* Twice the half-distance from the f32 integer v >= 0 down to the f32 just
\* below it, where that distance is at least 1; 0 where it is a fraction (the
\* low band: the midpoint is then closer to v than any value the program
\* computes there and does not equal v).
HalfGap2(v) ==
  IF v <= Pow2(MantBits - 1) THEN 0
  ELSE IF v = Pow2(Log2(v)) THEN Ulp(v - 1) ELSE Ulp(v)

\* Complex<f32>.
Point(re, im) == [re |-> re, im |-> im]

\* (a - b).norm_sqr(): componentwise f32 subtraction, then re*re + im*im.
NormSqr(a, b) ==
  LET dre == Fl(a.re - b.re)
      dim == Fl(a.im - b.im)
  IN Fl(Fl(dre * dre) + Fl(dim * dim))

\* closest_distance_sqr.sqrt()
Sqrt(n) == [sqrt_of |-> n]

\* k >= d for an f32 integer k and d the f32 root of d.sqrt_of.
GeRoot(k, d) == k >= 0 /\ k * k >= d.sqrt_of

\* (a.re, a.im).partial_cmp(&(b.re, b.im)) is Less.
LessReIm(a, b) == a.re < b.re \/ (a.re = b.re /\ a.im < b.im)

\* YSortedPoint::partial_cmp is Less: the order (im, re) of the strip.
LessImRe(a, b) == a.im < b.im \/ (a.im = b.im /\ a.re < b.re)

\* points.sort_by(...): s with p put at its place in the sorted sequence s.
RECURSIVE InsertSorted(_, _)
InsertSorted(p, s) ==
  IF s = <<>> THEN <<p>>
  ELSE IF LessReIm(p, Head(s)) THEN <<p>> \o s
  ELSE <<Head(s)>> \o InsertSorted(p, Tail(s))

RECURSIVE SortBy(_)
SortBy(s) ==
  IF s = <<>> THEN <<>>
  ELSE InsertSorted(s[Len(s)], SortBy(SubSeq(s, 1, Len(s) - 1)))

Unsorted(s) == s

\* points.sort_by(|a, b| (a.re, a.im).partial_cmp(&(b.re, b.im)).unwrap())
SortedPoints(s) == SortBy(s)

\* The elements of a TreeSet<YSortedPoint> in iteration order.
RECURSIVE InOrder(_)
InOrder(S) ==
  IF S = {} THEN <<>>
  ELSE LET m == CHOOSE a \in S : \A b \in S : b = a \/ LessImRe(a, b)
       IN <<m>> \o InOrder(S \ {m})

\* The probe YSortedPoint { re: infinity, im: point.im - closest_distance }
\* is Less than q: q.im > fl(point.im - closest_distance), every re being
\* below infinity.  fl(v) < q.im exactly when v lies below the midpoint of
\* q.im and the f32 just below it, or on it with that f32 the even one.
ProbeLess(point, d, q) ==
  LET g == HalfGap2(q.im)
      h == 2 * (point.im - q.im) + g
      below == q.im - g
  IN \/ h < 0
     \/ 4 * d.sqrt_of > h * h
     \/ g >= 1 /\ 4 * d.sqrt_of = h * h /\ (below \div g) % 2 = 0

\* strip.upper_bound(&probe): the cursor over the elements above the probe.
UpperBound(S, point, d) == InOrder({q \in S : ProbeLess(point, d, q)})

\* points[i], indexed from 0 as in the source.
At(s, i) == s[i + 1]


\* if points.len() < 2 { return None }
TooFewOffByOne(s) == Len(s) < 3

TooFew(s) == Len(s) < 2

\* The test of the eviction loop that keeps leftmost_point on the strip:
\* (leftmost_point.re - point.re).powi(2) < closest_distance_sqr
WithinStripInclusive(leftmost_point, point, dsqr) ==
  LET dre == Fl(leftmost_point.re - point.re) IN Fl(dre * dre) <= dsqr

WithinStrip(leftmost_point, point, dsqr) ==
  LET dre == Fl(leftmost_point.re - point.re) IN Fl(dre * dre) < dsqr

\* point2.im - point.im >= closest_distance: the end of the box.
BoxEnd(point2, point, d) == GeRoot(Fl(point2.im - point.im), d)

\* dist_sqr < closest_distance_sqr
CloserOrEqual(dist_sqr, dsqr) == dist_sqr <= dsqr

Closer(dist_sqr, dsqr) == dist_sqr < dsqr

\* closest_pair = (point2, *point)
NewPairSwapped(point2, point) == <<point, point2>>

NewPair(point2, point) == <<point2, point>>

\* Option<(Point, Point)>, and the value of a call that has not returned.
Pending == [kind |-> "Pending", pair |-> <<>>]
None == [kind |-> "None", pair |-> <<>>]
Some(pr) == [kind |-> "Some", pair |-> pr]

VARIABLES
  pc,                    \* position in closest_pair
  points,                \* the slice, sorted in place
  closest_pair, closest_distance_sqr, closest_distance,
  strip,                 \* TreeSet<YSortedPoint>
  leftmost_idx,
  idx,                   \* index of the for loop: points[idx] is `point`
  strip_iter,            \* the elements the cursor has yet to yield
  result,                \* what the call returned
  remove_found,          \* what the last strip.remove returned
  probe_distance,        \* closest_distance when upper_bound was called
  trace,                 \* the pairs whose distance was computed, in order
  run, prev              \* the call being made, and what the first returned

vars == <<pc, points, closest_pair, closest_distance_sqr, closest_distance,
          strip, leftmost_idx, idx, strip_iter, result, remove_found,
          probe_distance, trace, run, prev>>

LowBand == {Point(x, y) : x \in 0..MaxRe, y \in 0..MaxIm}
HighIm == Pow2(MantBits + 1)
HighBand == {Point(x, HighIm) : x \in 0..MaxRe}
Inputs(B) == UNION {[1..n -> B] : n \in 0..MaxLen}

\* The locals of closest_pair before the call assigns them.
Fresh ==
  /\ pc = "entry"
  /\ closest_pair = <<>>
  /\ closest_distance_sqr = 0
  /\ closest_distance = Sqrt(0)
  /\ strip = {}
  /\ leftmost_idx = 0
  /\ idx = 0
  /\ strip_iter = <<>>
  /\ result = Pending
  /\ remove_found = TRUE
  /\ probe_distance = Sqrt(0)
  /\ trace = <<>>

Init ==
  /\ points \in Inputs(LowBand) \cup Inputs(HighBand)
  /\ Fresh
  /\ run = 1
  /\ prev = Pending

point == At(points, idx)

\* Lines 40-42.
ReturnNone ==
  /\ pc = "entry"
  /\ TooFew(points)
  /\ result' = None
  /\ pc' = "done"
  /\ UNCHANGED <<points, closest_pair, closest_distance_sqr, closest_distance,
                 strip, leftmost_idx, idx, strip_iter, remove_found,
                 probe_distance, trace, run, prev>>

\* Lines 44-56: the sort, the first pair, the strip of the first two points.
SortAndInit ==
  /\ pc = "entry"
  /\ ~TooFew(points)
  /\ points' = SortedPoints(points)
  /\ closest_pair' = <<At(points', 0), At(points', 1)>>
  /\ closest_distance_sqr' = NormSqr(At(points', 0), At(points', 1))
  /\ closest_distance' = Sqrt(closest_distance_sqr')
  /\ strip' = ({} \cup {At(points', 0)}) \cup {At(points', 1)}
  /\ leftmost_idx' = 0
  /\ idx' = 2
  /\ trace' = <<[q |-> At(points', 0), p |-> At(points', 1), i |-> 1]>>
  /\ pc' = "loop"
  /\ UNCHANGED <<strip_iter, result, remove_found, probe_distance, run, prev>>

\* Line 59: the next point of the sweep.
NextPoint ==
  /\ pc = "loop"
  /\ idx < Len(points)
  /\ pc' = "evict"
  /\ UNCHANGED <<points, closest_pair, closest_distance_sqr, closest_distance,
                 strip, leftmost_idx, idx, strip_iter, result, remove_found,
                 probe_distance, trace, run, prev>>

\* Line 98.
ReturnSome ==
  /\ pc = "loop"
  /\ idx >= Len(points)
  /\ result' = Some(closest_pair)
  /\ pc' = "done"
  /\ UNCHANGED <<points, closest_pair, closest_distance_sqr, closest_distance,
                 strip, leftmost_idx, idx, strip_iter, remove_found,
                 probe_distance, trace, run, prev>>

\* Lines 62-68: one pass of the eviction loop that removes leftmost_point.
EvictRemove ==
  /\ pc = "evict"
  /\ leftmost_idx < idx
  /\ LET leftmost_point == At(points, leftmost_idx)
     IN /\ ~WithinStrip(leftmost_point, point, closest_distance_sqr)
        /\ remove_found' = (leftmost_point \in strip)
        /\ strip' = strip \ {leftmost_point}
  /\ leftmost_idx' = leftmost_idx + 1
  /\ UNCHANGED <<pc, points, closest_pair, closest_distance_sqr,
                 closest_distance, idx, strip_iter, result, probe_distance,
                 trace, run, prev>>

\* Lines 62-66: the eviction loop ends.
EvictEnd ==
  /\ pc = "evict"
  /\ \/ leftmost_idx >= idx
     \/ WithinStrip(At(points, leftmost_idx), point, closest_distance_sqr)
  /\ pc' = "bound"
  /\ UNCHANGED <<points, closest_pair, closest_distance_sqr, closest_distance,
                 strip, leftmost_idx, idx, strip_iter, result, remove_found,
                 probe_distance, trace, run, prev>>

\* Lines 73-75.
StartScan ==
  /\ pc = "bound"
  /\ strip_iter' = UpperBound(strip, point, closest_distance)
  /\ probe_distance' = closest_distance
  /\ pc' = "scan"
  /\ UNCHANGED <<points, closest_pair, closest_distance_sqr, closest_distance,
                 strip, leftmost_idx, idx, result, remove_found, trace, run,
                 prev>>

\* Lines 77-84: the cursor is exhausted, or point2 is past the box.
ScanEnd ==
  /\ pc = "scan"
  /\ \/ strip_iter = <<>>
     \/ strip_iter # <<>> /\ BoxEnd(Head(strip_iter), point, closest_distance)
  /\ strip_iter' = IF strip_iter = <<>> THEN <<>> ELSE Tail(strip_iter)
  /\ pc' = "insert"
  /\ UNCHANGED <<points, closest_pair, closest_distance_sqr, closest_distance,
                 strip, leftmost_idx, idx, result, remove_found,
                 probe_distance, trace, run, prev>>

\* Lines 77-90: point2 is in the box and is compared with point.
ScanCompare ==
  /\ pc = "scan"
  /\ strip_iter # <<>>
  /\ LET point2 == Head(strip_iter)
         dist_sqr == NormSqr(point, point2)
     IN /\ ~BoxEnd(point2, point, closest_distance)
        /\ IF Closer(dist_sqr, closest_distance_sqr)
           THEN /\ closest_pair' = NewPair(point2, point)
                /\ closest_distance_sqr' = dist_sqr
                /\ closest_distance' = Sqrt(dist_sqr)
           ELSE UNCHANGED <<closest_pair, closest_distance_sqr,
                            closest_distance>>
        /\ trace' = Append(trace, [q |-> point2, p |-> point, i |-> idx])
  /\ strip_iter' = Tail(strip_iter)
  /\ UNCHANGED <<pc, points, strip, leftmost_idx, idx, result, remove_found,
                 probe_distance, run, prev>>

\* Line 95, and the step of the for loop.
Insert ==
  /\ pc = "insert"
  /\ strip' = strip \cup {point}
  /\ idx' = idx + 1
  /\ strip_iter' = <<>>
  /\ pc' = "loop"
  /\ UNCHANGED <<points, closest_pair, closest_distance_sqr, closest_distance,
                 leftmost_idx, result, remove_found, probe_distance, trace,
                 run, prev>>

Perms(n) == {f \in [1..n -> 1..n] : \A a, b \in 1..n : f[a] = f[b] => a = b}

\* The caller shuffles the slice and calls closest_pair again.
Shuffle ==
  /\ pc = "done"
  /\ run = 1
  /\ \E f \in Perms(Len(points)) :
       points' = [k \in 1..Len(points) |-> points[f[k]]]
  /\ prev' = result
  /\ run' = 2
  /\ pc' = "entry"
  /\ closest_pair' = <<>>
  /\ closest_distance_sqr' = 0
  /\ closest_distance' = Sqrt(0)
  /\ strip' = {}
  /\ leftmost_idx' = 0
  /\ idx' = 0
  /\ strip_iter' = <<>>
  /\ result' = Pending
  /\ remove_found' = TRUE
  /\ probe_distance' = Sqrt(0)
  /\ trace' = <<>>

Next ==
  \/ ReturnNone
  \/ SortAndInit
  \/ NextPoint
  \/ ReturnSome
  \/ EvictRemove
  \/ EvictEnd
  \/ StartScan
  \/ ScanEnd
  \/ ScanCompare
  \/ Insert
  \/ Shuffle

Spec == Init /\ [][Next]_vars

(***************************************************************************)
(* The properties.                                                         *)
(***************************************************************************)

\* The least squared distance over the pairs of distinct positions of s, by
\* comparing all pairs.
PairsOf(s) == {ij \in (1..Len(s)) \X (1..Len(s)) : ij[1] < ij[2]}
MinSqr(s) ==
  LET D == {NormSqr(s[ij[1]], s[ij[2]]) : ij \in PairsOf(s)}
  IN CHOOSE m \in D : \A n \in D : m <= n

Returned == pc = "done" /\ result.kind = "Some"
Sweeping == pc \in {"evict", "bound", "scan", "insert"}

\* C1: for N >= 2 the call returns Some((p1, p2)), p1 and p2 at two positions
\* of the input, at the least squared distance over all pairs of positions.
C1_MinimumPair ==
  pc = "done" /\ Len(points) >= 2 =>
    /\ result.kind = "Some"
    /\ \E ij \in PairsOf(points) :
         {result.pair[1], result.pair[2]} = {points[ij[1]], points[ij[2]]}
    /\ NormSqr(result.pair[1], result.pair[2]) = MinSqr(points)

\* C2: the call returns None for 0 or 1 points and Some for 2 or more.
C2_NoneIffFewerThanTwo ==
  pc = "done" =>
    /\ Len(points) <= 1 => result = None
    /\ Len(points) >= 2 => result.kind = "Some"

\* A call on one point has returned None.
C2_Witness == pc = "done" /\ Len(points) = 1 /\ result = None

\* C3: when the input holds the same point at two positions, the returned
\* pair is a pair of equal points.
C3_CoincidentPair ==
  pc = "done" /\ (\E ij \in PairsOf(points) : points[ij[1]] = points[ij[2]]) =>
    result.kind = "Some" /\ result.pair[1] = result.pair[2]

\* C4: the call on a shuffle of the sequence returns a pair at the same
\* squared distance as the call on the sequence (and None when that was None).
C4_ShuffleSameDistance ==
  pc = "done" /\ run = 2 =>
    /\ result.kind = prev.kind
    /\ result.kind = "Some" =>
         NormSqr(result.pair[1], result.pair[2])
           = NormSqr(prev.pair[1], prev.pair[2])

\* The call on the shuffled slice has returned a pair found by the sweep.
C4_Witness ==
  /\ Returned /\ run = 2 /\ Len(points) = MaxLen
  /\ result.pair # <<points[1], points[2]>>

\* The pairs whose distance the program computes come in the order
\* (points[0], points[1]), then the sweep points ascending in (re, im), and for
\* each the strip points ascending in (im, re).
TraceSqr(k) == NormSqr(trace[k].p, trace[k].q)
TraceOrdered ==
  /\ trace[1] = [q |-> points[1], p |-> points[2], i |-> 1]
  /\ \A k \in 1..(Len(points) - 1) : ~LessReIm(points[k + 1], points[k])
  /\ \A k \in 2..Len(trace) : trace[k].i >= 2 /\ trace[k].p = At(points, trace[k].i)
  /\ \A a, b \in 1..Len(trace) :
       a < b => \/ trace[a].i < trace[b].i
                \/ trace[a].i = trace[b].i /\ LessImRe(trace[a].q, trace[b].q)

\* The pairs of positions at the least squared distance of the input.
MinPairs ==
  {ij \in PairsOf(points) :
     NormSqr(points[ij[1]], points[ij[2]]) = MinSqr(points)}

\* C5: when several pairs share the minimum distance, the returned pair is
\* the first pair at that distance in the order in which the pairs are met;
\* no earlier pair is at an equal or smaller distance (the best pair is only
\* replaced by a strictly closer one).
C5_FirstOfMinimumPairs ==
  Returned /\ Cardinality(MinPairs) >= 2 =>
    /\ TraceOrdered
    /\ \E k \in 1..Len(trace) :
         /\ result.pair = <<trace[k].q, trace[k].p>>
         /\ TraceSqr(k) = MinSqr(points)
         /\ \A a \in 1..(k - 1) : TraceSqr(a) > TraceSqr(k)

\* What holds of the tie-break: the best pair is always the first pair met at
\* the least squared distance met so far.
FirstFound ==
  \E k \in 1..Len(trace) :
    /\ closest_pair = <<trace[k].q, trace[k].p>>
    /\ closest_distance_sqr = TraceSqr(k)
    /\ \A a \in 1..Len(trace) : TraceSqr(a) >= TraceSqr(k)
    /\ \A a \in 1..(k - 1) : TraceSqr(a) > TraceSqr(k)
FirstFoundWins ==
  /\ trace # <<>> => TraceOrdered /\ FirstFound
  /\ Returned => result.pair = closest_pair

\* C6: in Some((p1, p2)), (p1.re, p1.im) <= (p2.re, p2.im).
C6_PairInSortOrder ==
  Returned => ~LessReIm(result.pair[2], result.pair[1])

\* The returned pair is one the scan stored, of two different points.
C6_Witness ==
  /\ Returned
  /\ Len(trace) >= 2
  /\ result.pair = <<trace[Len(trace)].q, trace[Len(trace)].p>>
  /\ result.pair # <<points[1], points[2]>>
  /\ result.pair[1] # result.pair[2]

\* C7.  Near: the visited points whose re differs from that of the sweep
\* point by less than the best distance.
Visited == {At(points, j) : j \in 0..(idx - 1)}
Near ==
  {v \in Visited :
     (point.re - v.re) * (point.re - v.re) < closest_distance_sqr}

\* C7 as stated: at every step of the sweep loop the strip is exactly Near.
C7_StripExactAtEveryStep == Sweeping => strip = Near

\* C7 as amended: the strip is exactly Near when the eviction loop has ended,
\* and until the best distance next shrinks; at every step of the sweep loop
\* it holds at least Near.
C7_StripExactAfterEviction ==
  /\ Sweeping => Near \subseteq strip
  /\ pc = "bound" => strip = Near
  /\ pc \in {"scan", "insert"} /\ closest_distance = probe_distance =>
       strip = Near

\* The eviction loop has removed a point and left another on the strip.
C7_Witness ==
  /\ pc = "bound"
  /\ leftmost_idx > 0
  /\ strip # {}
  /\ strip = Near

\* C8: strip.remove is only called on a point that is in the strip.
C8_RemoveOnlyPresent == remove_found

\* The strip points already compared with the sweep point, and the strip
\* points q with q.im >= point.im - closest_distance, in exact arithmetic.
Compared == {trace[k].q : k \in {a \in 1..Len(trace) : trace[a].i = idx}}
AtLeastProbe(q) ==
  \/ point.im - q.im <= 0
  \/ (point.im - q.im) * (point.im - q.im) <= closest_distance.sqrt_of

\* C9: the cursor begins at the first strip element, in ascending (im, re),
\* whose im is at least point.im - closest_distance.
C9_CursorFromProbe ==
  pc = "scan" /\ Compared = {} =>
    strip_iter = InOrder({q \in strip : AtLeastProbe(q)})

\* C10: after each iteration of the sweep, and before the first,
\* closest_distance_sqr is the squared distance of closest_pair and the least
\* squared distance over the pairs of the sorted prefix visited so far.
C10_PrefixMinimum ==
  pc = "loop" =>
    /\ closest_distance_sqr = NormSqr(closest_pair[1], closest_pair[2])
    /\ closest_distance_sqr = MinSqr(SubSeq(points, 1, idx))

====
